---- MODULE Spec2Model ----
(***************************************************************************)
(* Model of disney_brdf_pyvista.py: the parameter store `params`, the two  *)
(* render actors, the ten slider callbacks, apply_preset, update_materials *)
(* and the torus-knot mesh builder.                                        *)
(*                                                                         *)
(* Numbers.  Every material parameter is a float in [0.0, 1.0]; it is kept *)
(* here as an integer number of hundredths (0.88 is 88).  The index of     *)
(* refraction is kept in thousandths (1.4 is 1400), so that                *)
(* 1.0 + specular * 0.8 is the exact integer 1000 + specular * 8.          *)
(*                                                                         *)
(* Lists.  params['base_color'] is a Python list, a mutable object that    *)
(* the store holds by reference.  `heap` maps list references to their     *)
(* three channels; evaluating a list literal allocates a fresh reference.  *)
(***************************************************************************)
EXTENDS Integers, Sequences, FiniteSets, TLC

VARIABLES
    params,      \* the module-level dict `params`; base_color is a reference
    heap,        \* the list objects alive: reference -> <<r, g, b>>
    actors,      \* the properties of sphere_actor and torus_actor
    renders,     \* how many times plotter.render() has run
    trace,       \* what the last handler did, statement by statement
    exception,   \* the exception the last call raised, "none" if none
    lastOp,      \* the last handler the event loop ran, with its argument
    nops,        \* how many handlers have run
    applied,     \* per preset: whether it was applied, and what it first wrote
    mesh_in,     \* the arguments of create_torus_knot
    torus_knot   \* the result of create_torus_knot

vars == <<params, heap, actors, renders, trace, exception, lastOp, nops,
          applied, mesh_in, torus_knot>>

(***************************************************************************)
(* Bounds of the model.                                                    *)
(***************************************************************************)
MaxOps == 3
SliderSteps == 1
MaxWinding == 3
MaxResolution == 5
NegResolutions == 2

\* The values a slider of domain [0.0, 1.0] delivers, in hundredths.
SliderValues == {(100 * i) \div SliderSteps : i \in 0..SliderSteps}

ActorNames == {"sphere", "torus"}
PropNames == {"color", "metallic", "roughness", "ior", "anisotropy",
              "anisotropy_rotation", "coat_strength", "coat_roughness"}
ScalarFields == {"metallic", "roughness", "specular", "anisotropic",
                 "anisotropic_rotation", "clearcoat", "clearcoat_roughness"}

\* A property add_mesh was not given: it is still at the toolkit's default.
Unset == 0 - 1

(***************************************************************************)
(* The heap of list objects.                                               *)
(***************************************************************************)
\* A reference is <<site, generation>>: the literal that made the list, and
\* which evaluation of it.
FreshGen(h, site) == CHOOSE g \in 0..Cardinality(DOMAIN h) :
    /\ <<site, g>> \notin DOMAIN h
    /\ \A k \in 0..(g - 1) : <<site, k>> \in DOMAIN h

Extend(h, ref, value) == [r \in (DOMAIN h) \cup {ref} |-> IF r = ref THEN value ELSE h[r]]

\* A list literal evaluated once and kept: the object of the first evaluation
\* is handed out again, with whatever it holds by now.
AllocListShared(h, site, value) ==
    IF <<site, 0>> \in DOMAIN h
    THEN [heap |-> h, ref |-> <<site, 0>>]
    ELSE [heap |-> Extend(h, <<site, 0>>, value), ref |-> <<site, 0>>]

\* Evaluating a list literal [r, g, b]: a new object every time.
AllocList(h, site, value) ==
    LET ref == <<site, FreshGen(h, site)>>
    IN [heap |-> Extend(h, ref, value), ref |-> ref]

\* What is left of the heap once the locals of a call are gone: the lists
\* still referenced from the module-level names.
Collect(m) == [m EXCEPT !.heap = [r \in {m.params.base_color} |-> m.heap[r]]]

(***************************************************************************)
(* The store as a caller reads it: base_color dereferenced.                *)
(***************************************************************************)
StoreView(p, h) == [p EXCEPT !.base_color = h[p.base_color]]

Store == StoreView(params, heap)

\* The machine state a handler works on; the trace starts empty.
Cur == [params |-> params, heap |-> heap, actors |-> actors, renders |-> renders,
        trace |-> <<>>, exception |-> "none"]

(***************************************************************************)
(* update_materials                                                        *)
(***************************************************************************)
\* A mapping that reaches 1.5 at the middle value, as the comments say.
SpecularToIORMid(specular) == 1000 + specular * 10

\* ior = 1.0 + params['specular'] * 0.8, in thousandths
SpecularToIOR(specular) == 1000 + specular * 8

\* actor.GetProperty().Set<prop>(value)
SetProp(m, actor, prop, value) ==
    [m EXCEPT !.actors[actor][prop] = value,
              !.trace = Append(@, <<"set", actor, prop, value>>)]

\* The eight setter calls on one actor, in the order of the code.
PushToActor(m, actor, color, ior) ==
    LET m1 == SetProp(m, actor, "color", color)
        m2 == SetProp(m1, actor, "metallic", m1.params.metallic)
        m3 == SetProp(m2, actor, "roughness", m2.params.roughness)
        m4 == SetProp(m3, actor, "ior", ior)
        m5 == SetProp(m4, actor, "anisotropy", m4.params.anisotropic)
        m6 == SetProp(m5, actor, "anisotropy_rotation", m5.params.anisotropic_rotation)
        m7 == SetProp(m6, actor, "coat_strength", m6.params.clearcoat)
        m8 == SetProp(m7, actor, "coat_roughness", m7.params.clearcoat_roughness)
    IN m8

\* plotter.render()
Render(m) == [m EXCEPT !.renders = @ + 1, !.trace = Append(@, <<"render">>)]

\* A push that forgets the second actor's index of refraction.
update_materials_stale(m) ==
    LET color == m.heap[m.params.base_color]
        ior == SpecularToIOR(m.params.specular)
        m1 == PushToActor(m, "sphere", color, ior)
        m2 == PushToActor(m1, "torus", color, m.actors["torus"]["ior"])
    IN Render(m2)

update_materials(m) ==
    LET color == m.heap[m.params.base_color]
        ior == SpecularToIOR(m.params.specular)
        m1 == PushToActor(m, "sphere", color, ior)
        m2 == PushToActor(m1, "torus", color, ior)
    IN Render(m2)

(***************************************************************************)
(* The slider callbacks                                                    *)
(***************************************************************************)
\* params[key] = value
StoreField(m, key, value) ==
    [m EXCEPT !.params[key] = value,
              !.trace = Append(@, <<"store", key>>)]

\* params['base_color'][i] = value: an update of the list object in place
StoreChannel(m, i, value) ==
    [m EXCEPT !.heap[m.params.base_color][i] = value,
              !.trace = Append(@, <<"store", "base_color", i>>)]

update_metallic(m, value) == update_materials(StoreField(m, "metallic", value))

update_roughness(m, value) == update_materials(StoreField(m, "roughness", value))

update_specular(m, value) == update_materials(StoreField(m, "specular", value))

update_anisotropic(m, value) == update_materials(StoreField(m, "anisotropic", value))

\* A callback that takes the rotation for degrees.
update_anisotropic_rotation_degrees(m, value) ==
    update_materials(StoreField(m, "anisotropic_rotation", value * 360))

update_anisotropic_rotation(m, value) ==
    update_materials(StoreField(m, "anisotropic_rotation", value))

update_clearcoat(m, value) == update_materials(StoreField(m, "clearcoat", value))

\* A callback that writes its neighbour's field as well.
update_clearcoat_roughness_both(m, value) ==
    update_materials(StoreField(StoreField(m, "clearcoat_roughness", value),
                                "clearcoat", value))

update_clearcoat_roughness(m, value) ==
    update_materials(StoreField(m, "clearcoat_roughness", value))

update_base_color_r(m, value) == update_materials(StoreChannel(m, 1, value))

update_base_color_g(m, value) == update_materials(StoreChannel(m, 2, value))

update_base_color_b(m, value) == update_materials(StoreChannel(m, 3, value))

(***************************************************************************)
(* apply_preset                                                            *)
(***************************************************************************)
PresetOrder == <<"gold", "chrome", "plastic", "rubber", "wood", "car_paint",
                 "brushed_metal">>

PresetNames == {PresetOrder[i] : i \in DOMAIN PresetOrder}

\* The literals of the `presets` dict, in hundredths.
PresetData ==
    [name \in PresetNames |->
        CASE name = "gold" ->
               [color |-> <<100, 70, 30>>, metallic |-> 100, roughness |-> 20,
                specular |-> 50, anisotropic |-> 0, clearcoat |-> 0]
          [] name = "chrome" ->
               [color |-> <<88, 88, 88>>, metallic |-> 100, roughness |-> 5,
                specular |-> 50, anisotropic |-> 0, clearcoat |-> 0]
          [] name = "plastic" ->
               [color |-> <<80, 20, 20>>, metallic |-> 0, roughness |-> 30,
                specular |-> 50, anisotropic |-> 0, clearcoat |-> 50]
          [] name = "rubber" ->
               [color |-> <<15, 15, 15>>, metallic |-> 0, roughness |-> 90,
                specular |-> 50, anisotropic |-> 0, clearcoat |-> 0]
          [] name = "wood" ->
               [color |-> <<42, 20, 6>>, metallic |-> 0, roughness |-> 70,
                specular |-> 50, anisotropic |-> 0, clearcoat |-> 10]
          [] name = "car_paint" ->
               [color |-> <<80, 0, 0>>, metallic |-> 0, roughness |-> 10,
                specular |-> 50, anisotropic |-> 0, clearcoat |-> 100]
          [] name = "brushed_metal" ->
               [color |-> <<70, 70, 70>>, metallic |-> 100, roughness |-> 30,
                specular |-> 50, anisotropic |-> 80, clearcoat |-> 0]]

\* Evaluating the dict display `presets = {...}`: the first n entries, each
\* 'color' literal allocated as it is reached.
RECURSIVE BuildPresets(_, _)
BuildPresets(h, n) ==
    IF n = 0
    THEN [heap |-> h, presets |-> <<>>]
    ELSE LET prev == BuildPresets(h, n - 1)
             name == PresetOrder[n]
             a == AllocList(prev.heap, name, PresetData[name].color)
             entry == [PresetData[name] EXCEPT !.color = a.ref]
         IN [heap |-> a.heap,
             presets |-> [k \in (DOMAIN prev.presets) \cup {name} |->
                             IF k = name THEN entry ELSE prev.presets[k]]]

\* preset.get(key, default)
Get(preset, key, default) == IF key \in DOMAIN preset THEN preset[key] ELSE default

\* A lookup that falls back to a default material for a name it does not know.
LookupPresetDefault(presets, preset_name) ==
    IF preset_name \in DOMAIN presets THEN <<presets[preset_name]>>
    ELSE <<presets["plastic"]>>

\* `if preset_name in presets: preset = presets[preset_name]`; <<>> if absent
LookupPreset(presets, preset_name) ==
    IF preset_name \in DOMAIN presets THEN <<presets[preset_name]>> ELSE <<>>

\* print(...)
WriteStdout(m, text) == [m EXCEPT !.trace = Append(@, <<"stdout", text>>)]

\* A body that pushes to the actors as soon as the colour is in place.
ApplyFieldsEarlyPush(m, preset, preset_name) ==
    LET m1 == update_materials(StoreField(m, "base_color", preset.color))
        m2 == StoreField(m1, "metallic", preset.metallic)
        m3 == StoreField(m2, "roughness", preset.roughness)
        m4 == StoreField(m3, "specular", Get(preset, "specular", 50))
        m5 == StoreField(m4, "anisotropic", Get(preset, "anisotropic", 0))
        m6 == StoreField(m5, "anisotropic_rotation", 0)
        m7 == StoreField(m6, "clearcoat", Get(preset, "clearcoat", 0))
        m8 == StoreField(m7, "clearcoat_roughness", 0)
        m9 == update_materials(m8)
    IN WriteStdout(m9, preset_name)

\* A body that leaves the rotation as the slider set it.
ApplyFieldsKeepRotation(m, preset, preset_name) ==
    LET m1 == StoreField(m, "base_color", preset.color)
        m2 == StoreField(m1, "metallic", preset.metallic)
        m3 == StoreField(m2, "roughness", preset.roughness)
        m4 == StoreField(m3, "specular", Get(preset, "specular", 50))
        m5 == StoreField(m4, "anisotropic", Get(preset, "anisotropic", 0))
        m7 == StoreField(m5, "clearcoat", Get(preset, "clearcoat", 0))
        m8 == StoreField(m7, "clearcoat_roughness", 0)
        m9 == update_materials(m8)
    IN WriteStdout(m9, preset_name)

\* The body of `if preset_name in presets:`
ApplyFields(m, preset, preset_name) ==
    LET m1 == StoreField(m, "base_color", preset.color)
        m2 == StoreField(m1, "metallic", preset.metallic)
        m3 == StoreField(m2, "roughness", preset.roughness)
        m4 == StoreField(m3, "specular", Get(preset, "specular", 50))
        m5 == StoreField(m4, "anisotropic", Get(preset, "anisotropic", 0))
        m6 == StoreField(m5, "anisotropic_rotation", 0)
        m7 == StoreField(m6, "clearcoat", Get(preset, "clearcoat", 0))
        m8 == StoreField(m7, "clearcoat_roughness", 0)
        m9 == update_materials(m8)
    IN WriteStdout(m9, preset_name)

apply_preset(m, preset_name) ==
    LET built == BuildPresets(m.heap, Len(PresetOrder))
        m0 == [m EXCEPT !.heap = built.heap]
        hit == LookupPreset(built.presets, preset_name)
    IN IF hit # <<>>
       THEN Collect(ApplyFields(m0, hit[1], preset_name))
       ELSE Collect(m0)

(***************************************************************************)
(* create_torus_knot                                                       *)
(***************************************************************************)
\* np.linspace(0, 2*np.pi, resolution): a negative sample count is refused
\* with ValueError, any other count gives that many samples.  Nothing else
\* in the builder looks at `resolution`.
Linspace(num) ==
    IF num < 0
    THEN [error |-> "ValueError", samples |-> 0]
    ELSE [error |-> "none", samples |-> num]

\* pv.Spline(points, n).tube(radius=0.3, n_sides=20): the toolkit's calls.
\* Fewer than three samples of the closed curve are one point (t = 0 and
\* t = 2*pi coincide); what the toolkit does with that is not decided by
\* this code: it may hand back a degenerate mesh or raise its own error.
SplineTube(n_samples, n_points) ==
    IF n_samples >= 3
    THEN {[kind |-> "mesh", samples |-> n_samples, spline_points |-> n_points,
           n_sides |-> 20, error |-> "none"]}
    ELSE {[kind |-> "mesh", samples |-> n_samples, spline_points |-> n_points,
           n_sides |-> 20, error |-> "none"],
          [kind |-> "raised", samples |-> n_samples, spline_points |-> n_points,
           n_sides |-> 20, error |-> "ToolkitError"]}

\* The outcomes of create_torus_knot(p, q, resolution).
create_torus_knot(p, q, resolution) ==
    LET t == Linspace(resolution)
    IN IF t.error # "none"
       THEN {[kind |-> "raised", samples |-> 0, spline_points |-> 0, n_sides |-> 0,
              error |-> t.error]}
       ELSE SplineTube(t.samples, resolution * 2)

NotBuilt == [kind |-> "none", samples |-> 0, spline_points |-> 0, n_sides |-> 0,
             error |-> "none"]

(***************************************************************************)
(* The state after the module has been loaded, up to plotter.show().       *)
(***************************************************************************)
InitParams ==
    /\ params = [base_color |-> <<"params", 0>>, metallic |-> 0, roughness |-> 50,
                 specular |-> 50, anisotropic |-> 0, anisotropic_rotation |-> 0,
                 clearcoat |-> 0, clearcoat_roughness |-> 0]
    /\ heap = [r \in {<<"params", 0>>} |-> <<50, 50, 50>>]

\* add_mesh(color=params['base_color'], metallic=..., roughness=...)
InitActors ==
    actors = [a \in ActorNames |->
                 [color |-> heap[params.base_color], metallic |-> params.metallic,
                  roughness |-> params.roughness, ior |-> Unset,
                  anisotropy |-> Unset, anisotropy_rotation |-> Unset,
                  coat_strength |-> Unset, coat_roughness |-> Unset]]

InitHistory ==
    /\ renders = 0
    /\ trace = <<>>
    /\ exception = "none"
    /\ lastOp = [kind |-> "none", name |-> "", value |-> 0]
    /\ nops = 0
    /\ applied = [n \in PresetNames |-> [status |-> "never", first |-> <<>>]]

Init ==
    /\ InitParams
    /\ InitActors
    /\ InitHistory
    /\ mesh_in = [p |-> 2, q |-> 3, resolution |-> 100]
    /\ torus_knot \in create_torus_knot(2, 3, 100)

(***************************************************************************)
(* The event loop: one action per handler.                                 *)
(***************************************************************************)
ColorSliders == {"base_color_r", "base_color_g", "base_color_b"}

\* A name that is not a key of `presets`.
UnknownNames == {"silver", "Gold"}

\* The record of which presets were applied, and what each first wrote.
NoteApplied(m, op) ==
    IF op.kind = "preset" /\ op.name \in PresetNames
    THEN [applied EXCEPT ![op.name] =
            IF @.status = "never"
            THEN [status |-> "applied", first |-> <<StoreView(m.params, m.heap)>>]
            ELSE IF @.status = "edited" THEN [@ EXCEPT !.status = "reapplied"]
            ELSE @]
    ELSE IF op.kind = "slider" /\ op.name \in ColorSliders
    THEN [n \in PresetNames |->
            IF applied[n].status \in {"applied", "reapplied"}
            THEN [applied[n] EXCEPT !.status = "edited"]
            ELSE applied[n]]
    ELSE applied

\* The handler has returned: its effects are the new state.
Handle(m, op) ==
    /\ nops < MaxOps
    /\ params' = m.params
    /\ heap' = m.heap
    /\ actors' = m.actors
    /\ renders' = m.renders
    /\ trace' = m.trace
    /\ exception' = m.exception
    /\ lastOp' = op
    /\ nops' = nops + 1
    /\ applied' = NoteApplied(m, op)
    /\ UNCHANGED <<mesh_in, torus_knot>>

Slider(name, v) == [kind |-> "slider", name |-> name, value |-> v]

SlideRed == \E v \in SliderValues :
    Handle(update_base_color_r(Cur, v), Slider("base_color_r", v))

SlideGreen == \E v \in SliderValues :
    Handle(update_base_color_g(Cur, v), Slider("base_color_g", v))

SlideBlue == \E v \in SliderValues :
    Handle(update_base_color_b(Cur, v), Slider("base_color_b", v))

SlideMetallic == \E v \in SliderValues :
    Handle(update_metallic(Cur, v), Slider("metallic", v))

SlideRoughness == \E v \in SliderValues :
    Handle(update_roughness(Cur, v), Slider("roughness", v))

SlideSpecular == \E v \in SliderValues :
    Handle(update_specular(Cur, v), Slider("specular", v))

SlideAnisotropic == \E v \in SliderValues :
    Handle(update_anisotropic(Cur, v), Slider("anisotropic", v))

SlideAnisotropicRotation == \E v \in SliderValues :
    Handle(update_anisotropic_rotation(Cur, v), Slider("anisotropic_rotation", v))

SlideClearcoat == \E v \in SliderValues :
    Handle(update_clearcoat(Cur, v), Slider("clearcoat", v))

SlideClearcoatRoughness == \E v \in SliderValues :
    Handle(update_clearcoat_roughness(Cur, v), Slider("clearcoat_roughness", v))

ApplyPreset == \E name \in PresetNames \cup UnknownNames :
    Handle(apply_preset(Cur, name), [kind |-> "preset", name |-> name, value |-> 0])

Next ==
    \/ SlideRed
    \/ SlideGreen
    \/ SlideBlue
    \/ SlideMetallic
    \/ SlideRoughness
    \/ SlideSpecular
    \/ SlideAnisotropic
    \/ SlideAnisotropicRotation
    \/ SlideClearcoat
    \/ SlideClearcoatRoughness
    \/ ApplyPreset

Spec == Init /\ [][Next]_vars

(***************************************************************************)
(* The mesh builder on its own: the arguments are drawn, then it is called.*)
(***************************************************************************)
MeshArgs == [p : 1..MaxWinding, q : 1..MaxWinding,
             resolution : (0 - NegResolutions)..MaxResolution]

InitMesh ==
    /\ InitParams
    /\ InitActors
    /\ InitHistory
    /\ mesh_in \in MeshArgs
    /\ torus_knot = NotBuilt

BuildTorusKnot ==
    /\ torus_knot = NotBuilt
    /\ torus_knot' \in create_torus_knot(mesh_in.p, mesh_in.q, mesh_in.resolution)
    /\ UNCHANGED <<params, heap, actors, renders, trace, exception, lastOp, nops,
                   applied, mesh_in>>

NextMesh == BuildTorusKnot

SpecMesh == InitMesh /\ [][NextMesh]_vars

(***************************************************************************)
(* Properties                                                              *)
(***************************************************************************)
KnownPresetRan == lastOp.kind = "preset" /\ lastOp.name \in PresetNames

UnknownPresetRan == lastOp.kind = "preset" /\ lastOp.name \notin PresetNames

SliderRan == lastOp.kind = "slider"

\* The store with one slider's field, or colour channel, set to v.
SliderEffect(view, name, v) ==
    CASE name = "base_color_r" -> [view EXCEPT !.base_color[1] = v]
      [] name = "base_color_g" -> [view EXCEPT !.base_color[2] = v]
      [] name = "base_color_b" -> [view EXCEPT !.base_color[3] = v]
      [] OTHER -> [view EXCEPT ![name] = v]

\* What a store holds once preset `name` is in it.
PresetStore(name) ==
    [base_color |-> PresetData[name].color,
     metallic |-> PresetData[name].metallic,
     roughness |-> PresetData[name].roughness,
     specular |-> PresetData[name].specular,
     anisotropic |-> PresetData[name].anisotropic,
     anisotropic_rotation |-> 0,
     clearcoat |-> PresetData[name].clearcoat,
     clearcoat_roughness |-> 0]

\* The value an actor property must have for the store `view`.
PropOf(view, prop) ==
    CASE prop = "color" -> view.base_color
      [] prop = "metallic" -> view.metallic
      [] prop = "roughness" -> view.roughness
      [] prop = "ior" -> 1000 + view.specular * 8
      [] prop = "anisotropy" -> view.anisotropic
      [] prop = "anisotropy_rotation" -> view.anisotropic_rotation
      [] prop = "coat_strength" -> view.clearcoat
      [] prop = "coat_roughness" -> view.clearcoat_roughness

IsSet(e) == e[1] = "set"

IsPush(e) == e[1] = "set" \/ e[1] = "render"

SetEvents == {i \in DOMAIN trace : IsSet(trace[i])}

PushEvents == {i \in DOMAIN trace : IsPush(trace[i])}

RenderEvents == {i \in DOMAIN trace : trace[i][1] = "render"}

StoreEvents == {i \in DOMAIN trace : trace[i][1] = "store"}

IorEvents == {i \in SetEvents : trace[i][3] = "ior"}

\* C1: a slider callback run with v sets exactly its own store field (or
\* colour channel) to v and leaves every other field and channel as it was.
C1_SliderSetsExactlyItsField ==
    [][(lastOp'.kind = "slider" /\ nops' # nops) =>
          Store' = SliderEffect(Store, lastOp'.name, lastOp'.value)]_vars

\* C1 witness: after the gold preset the roughness slider ran: roughness
\* is the slider's value, the other fields are still gold's.
C1_Witness ==
    /\ SliderRan
    /\ lastOp.name = "roughness"
    /\ lastOp.value = 100
    /\ Store = [PresetStore("gold") EXCEPT !.roughness = 100]

\* C2: once a slider callback or a known preset has returned, both actors
\* hold, for all eight properties, the values of the store; every setter was
\* called on both actors with the store's value, no setter was called with
\* any other value, and a redraw followed the last setter call.
C2_ActorsMatchStoreAfterMutation ==
    (SliderRan \/ KnownPresetRan) =>
        /\ \A a \in ActorNames : \A p \in PropNames :
              /\ actors[a][p] = PropOf(Store, p)
              /\ \E i \in SetEvents : trace[i][2] = a /\ trace[i][3] = p
        /\ \A i \in SetEvents : trace[i][4] = PropOf(Store, trace[i][3])
        /\ \E r \in RenderEvents : \A i \in SetEvents : i < r

\* C2 witness: the specular slider went to 1.0 on a chrome store, and the
\* torus actor has the new index of refraction and chrome's colour.
C2_Witness ==
    /\ SliderRan
    /\ lastOp.name = "specular"
    /\ lastOp.value = 100
    /\ actors["torus"]["ior"] = 1800
    /\ actors["torus"]["color"] = <<88, 88, 88>>
    /\ actors["sphere"]["metallic"] = 100

\* C3: apply_preset with a name that is no key of presets changes no field
\* of the store, raises nothing, calls no setter and requests no redraw.
C3_UnknownPresetIsNoOp ==
    [][(lastOp'.kind = "preset" /\ lastOp'.name \notin PresetNames /\ nops' # nops) =>
          /\ Store' = Store
          /\ params' = params
          /\ heap' = heap
          /\ actors' = actors
          /\ renders' = renders
          /\ trace' = <<>>
          /\ exception' = "none"]_vars

\* C3 witness: an unknown name was applied to a store that is not the
\* default one, and the store and the actors are as they were.
C3_Witness ==
    /\ UnknownPresetRan
    /\ Store = [PresetStore("car_paint") EXCEPT !.anisotropic_rotation = 100]
    /\ actors["sphere"]["coat_strength"] = 100
    /\ trace = <<>>

\* C4: a known preset overwrites the whole store with its own values,
\* rotation and clearcoat roughness 0, whatever the store held before; chrome
\* gives colour (0.88, 0.88, 0.88), metallic 1.0, roughness 0.05, clearcoat 0.0
\* and rotation 0.0.
C4_PresetOverwritesStore ==
    [][(lastOp'.kind = "preset" /\ lastOp'.name \in PresetNames /\ nops' # nops) =>
          /\ Store' = PresetStore(lastOp'.name)
          /\ lastOp'.name = "chrome" =>
                /\ Store'.base_color = <<88, 88, 88>>
                /\ Store'.metallic = 100
                /\ Store'.roughness = 5
                /\ Store'.clearcoat = 0
                /\ Store'.anisotropic_rotation = 0]_vars

\* C4 witness: chrome was applied after gold had been applied and its colour
\* edited by a slider, and the store is chrome's.
C4_Witness ==
    /\ KnownPresetRan
    /\ lastOp.name = "chrome"
    /\ applied["gold"].status = "edited"
    /\ Store = PresetStore("chrome")

\* C5: every field and colour channel of the store lies in [0.0, 1.0], and
\* every index of refraction given to an actor lies in [1.0, 1.8].
C5_FieldsInRange ==
    /\ \A f \in ScalarFields : Store[f] \in 0..100
    /\ \A i \in 1..3 : Store.base_color[i] \in 0..100
    /\ \A i \in IorEvents : trace[i][4] \in 1000..1800
    /\ \A a \in ActorNames : renders > 0 => actors[a]["ior"] \in 1000..1800

\* C5 witness: an unknown preset name came after the sliders had driven
\* specular to its upper end, and the actors have the top of the range.
C5_Witness ==
    /\ UnknownPresetRan
    /\ Store.specular = 100
    /\ Store.base_color[1] = 0
    /\ actors["sphere"]["ior"] = 1800

C7_PresetIsAtomic ==
    KnownPresetRan =>
        /\ Cardinality(StoreEvents) = 8
        /\ \A f \in ScalarFields \cup {"base_color"} :
              \E i \in StoreEvents : trace[i] = <<"store", f>>
        /\ \A i \in StoreEvents : \A j \in PushEvents : i < j
        /\ \A i \in SetEvents :
              trace[i][4] = PropOf(PresetStore(lastOp.name), trace[i][3])
        /\ Cardinality(RenderEvents) = 1

\* C7 witness: brushed_metal was applied to a store that held gold, and the
\* handler made its 8 writes, 16 setter calls and one redraw.
C7_Witness ==
    /\ KnownPresetRan
    /\ lastOp.name = "brushed_metal"
    /\ applied["gold"].status = "applied"
    /\ Cardinality(StoreEvents) = 8
    /\ Cardinality(SetEvents) = 16
    /\ Cardinality(RenderEvents) = 1

\* C8: create_torus_knot fails, instead of returning a mesh, exactly when
\* the resolution is not a positive integer >= 3.
C8_InvalidResolutionRejected ==
    torus_knot # NotBuilt =>
        (torus_knot.kind = "raised" <=> mesh_in.resolution < 3)

\* C9: a specular of 0.5 reaches the actors as an index of refraction of 1.5.
C9_MidSpecularIsOnePointFive ==
    \A i \in IorEvents : Store.specular = 50 => trace[i][4] = 1500

\* C10: whenever a known preset is applied, the store is what the first
\* application of that preset wrote, whatever the sliders did in between.
C10_PresetsAreStatic ==
    KnownPresetRan => Store = applied[lastOp.name].first[1]

\* C10 witness: a preset was applied, a colour slider then changed the list
\* it had put in the store, and the preset was applied again.
C10_Witness ==
    /\ KnownPresetRan
    /\ applied[lastOp.name].status = "reapplied"
    /\ Store = PresetStore(lastOp.name)

====
